---- MODULE Spec2Model ----
(***************************************************************************)
(* A model of package matf64: in-place element-wise arithmetic on          *)
(* [][]float64 grids (scalar, vector and grid operands, direct kernels and *)
(* type-switching dispatchers), the reductions Sum, Prod and Avg, the      *)
(* predicates All and Any, T, Dot, I, Equal, the NewReducer closure, Apply *)
(* and Set, AppendCol and RandMat.                                         *)
(*                                                                         *)
(* A float64 is modelled as an exact rational <<n, d>> in lowest terms     *)
(* with d > 0, extended by the IEEE special values +Inf = <<1, 0>>,        *)
(* -Inf = <<-1, 0>> and NaN = <<0, 0>>.  Rounding and the sign of zero are *)
(* not modelled.  Slices are sequences, so Go index k is TLA+ index k + 1. *)
(* A run-time panic ends the call; what the call had already written to    *)
(* the grid stays written.                                                 *)
(***************************************************************************)
EXTENDS Integers, Sequences, FiniteSets, TLC

\* Bounds of the model.
MaxRows == 3
MaxCols == 3
MaxCells == 4
MaxCalls == 2

----------------------------------------------------------------------------
\* float64 values and their arithmetic

Abs(x) == IF x < 0 THEN -x ELSE x

Sgn(x) == IF x < 0 THEN -1 ELSE IF x > 0 THEN 1 ELSE 0

RECURSIVE GCD(_, _)
GCD(a, b) == IF b = 0 THEN a ELSE GCD(b, a % b)

\* the float64 with value n/d; d = 0 gives +Inf, -Inf or NaN by the sign of n
Norm(n, d) ==
    IF d = 0 THEN <<Sgn(n), 0>>
    ELSE LET k == GCD(Abs(n), d) IN <<n \div k, d \div k>>

F(k) == <<k, 1>>

NaN == <<0, 0>>

PosInf == <<1, 0>>

IsNaN(a) == a = NaN

\* a + b
FAdd(a, b) ==
    IF a[2] = 0 /\ b[2] = 0 THEN (IF a[1] = b[1] THEN a ELSE NaN)
    ELSE IF a[2] = 0 THEN a
    ELSE IF b[2] = 0 THEN b
    ELSE Norm(a[1] * b[2] + b[1] * a[2], a[2] * b[2])

\* a - b
FSub(a, b) == FAdd(a, <<-b[1], b[2]>>)

\* a * b
FMul(a, b) == Norm(a[1] * b[1], a[2] * b[2])

\* a / b : follows IEEE, x/0 is an infinity, 0/0 is NaN, never a panic
FDiv(a, b) ==
    LET sg == IF b[1] < 0 THEN -1 ELSE 1
    IN  Norm(a[1] * b[2] * sg, a[2] * Abs(b[1]))

\* a != b of Go: NaN differs from everything, itself included
FNeq(a, b) == IsNaN(a) \/ IsNaN(b) \/ a # b

\* the compound assignments x += y, x -= y, x *= y, x /= y, and the plain
\* assignment x = y
Ap(o, a, b) ==
    CASE o = "+" -> FAdd(a, b)
      [] o = "-" -> FSub(a, b)
      [] o = "*" -> FMul(a, b)
      [] o = "/" -> FDiv(a, b)
      [] o = "=" -> b

----------------------------------------------------------------------------
\* inputs

\* the float64 values of the inputs: the two identity elements; the
\* arithmetic takes them to 2, -1, +Inf, -Inf, NaN and fractions
Vals == {F(0), F(1)}

Vectors == UNION {[1..n -> Vals] : n \in 0..MaxCols}

\* the shapes of the grids tried: at most MaxRows rows, MaxCols columns and
\* MaxCells elements
Shapes == {sh \in (0..MaxRows) \X (0..MaxCols) : sh[1] * sh[2] <= MaxCells}

\* the rectangular grids of these shapes
Grids == UNION {[1..sh[1] -> [1..sh[2] -> Vals]] : sh \in Shapes}

\* some jagged grids: two rows of different lengths, fewer than MaxCells
\* elements
JaggedGrids ==
    {gg \in Vectors \X Vectors :
        Len(gg[1]) # Len(gg[2]) /\ Len(gg[1]) + Len(gg[2]) < MaxCells}

NoGrid == <<>>

NoVec == <<>>

Zero == F(0)

One == F(1)

----------------------------------------------------------------------------
\* outcomes of a call: it returns, or it panics on an index out of range
\* (raised by the Go run time), or it panics with a message of its own

Done(mm) == [m |-> mm, err |-> "none"]

IndexPanic(mm) == [m |-> mm, err |-> "index"]

UsagePanic(mm) == [m |-> mm, err |-> "usage"]

----------------------------------------------------------------------------
\* the element-wise loops of the twelve kernels

\* for i := range m { for j := range m[i] { m[i][j] o= s } }
ScalarLoop(o, mm, sv) ==
    Done([i \in DOMAIN mm |-> [j \in DOMAIN mm[i] |-> Ap(o, mm[i][j], sv)]])

\* for j := range v { m[i][j] o= v[j] } on one row, from Go index j - 1 on;
\* m[i][j] panics when the row is shorter than v
RECURSIVE VecRow(_, _, _, _)
VecRow(o, row, vv, j) ==
    IF j > Len(vv) THEN [row |-> row, err |-> "none"]
    ELSE IF j > Len(row) THEN [row |-> row, err |-> "index"]
    ELSE VecRow(o, [row EXCEPT ![j] = Ap(o, row[j], vv[j])], vv, j + 1)

\* for i := range m { ... } of the vector kernels, from Go index i - 1 on
RECURSIVE VecLoop(_, _, _, _)
VecLoop(o, mm, vv, i) ==
    IF i > Len(mm) THEN Done(mm)
    ELSE LET r == VecRow(o, mm[i], vv, 1)
             nm == [mm EXCEPT ![i] = r.row]
         IN  IF r.err = "none" THEN VecLoop(o, nm, vv, i + 1)
             ELSE IndexPanic(nm)

\* for j := range m[i] { m[i][j] o= v[i][j] } on one row; v[i] and v[i][j]
\* panic when v has no row i or a shorter row i
RECURSIVE MatRow(_, _, _, _, _)
MatRow(o, row, gv, i, j) ==
    IF j > Len(row) THEN [row |-> row, err |-> "none"]
    ELSE IF i > Len(gv) \/ j > Len(gv[i]) THEN [row |-> row, err |-> "index"]
    ELSE MatRow(o, [row EXCEPT ![j] = Ap(o, row[j], gv[i][j])], gv, i, j + 1)

\* for i := range m { ... } of the grid kernels
RECURSIVE MatLoop(_, _, _, _)
MatLoop(o, mm, gv, i) ==
    IF i > Len(mm) THEN Done(mm)
    ELSE LET r == MatRow(o, mm[i], gv, i, 1)
             nm == [mm EXCEPT ![i] = r.row]
         IN  IF r.err = "none" THEN MatLoop(o, nm, gv, i + 1)
             ELSE IndexPanic(nm)

\* SelfRow reading v[i][0] for every j: from the second element on the
\* operand is an element that was updated already
RECURSIVE SelfRow_FirstOfRow(_, _, _)
SelfRow_FirstOfRow(o, row, j) ==
    IF j > Len(row) THEN row
    ELSE SelfRow_FirstOfRow(o, [row EXCEPT ![j] = Ap(o, row[j], row[1])], j + 1)

\* for j := range m[i] { m[i][j] o= v[i][j] } on one row when v is the grid
\* m itself: v[i][j] is read from the row as it is at that step
RECURSIVE SelfRow(_, _, _)
SelfRow(o, row, j) ==
    IF j > Len(row) THEN row
    ELSE SelfRow(o, [row EXCEPT ![j] = Ap(o, row[j], row[j])], j + 1)

\* a grid kernel called with the grid m as both arguments: v has the rows
\* and the row lengths of m, so no index panics
SelfLoop(o, mm) == Done([i \in DOMAIN mm |-> SelfRow(o, mm[i], 1)])

MultScalar(mm, sv) == ScalarLoop("*", mm, sv)

MultVec(mm, vv) == VecLoop("*", mm, vv, 1)

MultMat(mm, gv) == MatLoop("*", mm, gv, 1)

AddScalar(mm, sv) == ScalarLoop("+", mm, sv)

AddVec(mm, vv) == VecLoop("+", mm, vv, 1)

AddMat(mm, gv) == MatLoop("+", mm, gv, 1)

SubScalar(mm, sv) == ScalarLoop("-", mm, sv)

SubVec(mm, vv) == VecLoop("-", mm, vv, 1)

SubMat(mm, gv) == MatLoop("-", mm, gv, 1)

DivScalar(mm, sv) == ScalarLoop("/", mm, sv)

DivVec(mm, vv) == VecLoop("/", mm, vv, 1)

DivMat(mm, gv) == MatLoop("/", mm, gv, 1)

----------------------------------------------------------------------------
\* the dispatchers: a type switch on the dynamic type of the operand

ScalarOperand(sv) == [kind |-> "float64", s |-> sv, v |-> NoVec, g |-> NoGrid]

VecOperand(vv) == [kind |-> "[]float64", s |-> Zero, v |-> vv, g |-> NoGrid]

MatOperand(gv) == [kind |-> "[][]float64", s |-> Zero, v |-> NoVec, g |-> gv]

\* an operand of a type the switch does not know
IntOperand == [kind |-> "int", s |-> Zero, v |-> NoVec, g |-> NoGrid]

Operands ==
    {ScalarOperand(sv) : sv \in Vals} \cup {VecOperand(vv) : vv \in Vectors}
        \cup {MatOperand(gv) : gv \in Grids} \cup {IntOperand}

Mult(mm, val) ==
    CASE val.kind = "float64" -> MultScalar(mm, val.s)
      [] val.kind = "[]float64" -> MultVec(mm, val.v)
      [] val.kind = "[][]float64" -> MultMat(mm, val.g)
      [] OTHER -> UsagePanic(mm)

Add(mm, val) ==
    CASE val.kind = "float64" -> AddScalar(mm, val.s)
      [] val.kind = "[]float64" -> AddVec(mm, val.v)
      [] val.kind = "[][]float64" -> AddMat(mm, val.g)
      [] OTHER -> UsagePanic(mm)

\* Sub with the vector case pasted from Add and left calling AddVec
Sub_PastedFromAdd(mm, val) ==
    CASE val.kind = "float64" -> SubScalar(mm, val.s)
      [] val.kind = "[]float64" -> AddVec(mm, val.v)
      [] val.kind = "[][]float64" -> SubMat(mm, val.g)
      [] OTHER -> UsagePanic(mm)

Sub(mm, val) ==
    CASE val.kind = "float64" -> SubScalar(mm, val.s)
      [] val.kind = "[]float64" -> SubVec(mm, val.v)
      [] val.kind = "[][]float64" -> SubMat(mm, val.g)
      [] OTHER -> UsagePanic(mm)

Div(mm, val) ==
    CASE val.kind = "float64" -> DivScalar(mm, val.s)
      [] val.kind = "[]float64" -> DivVec(mm, val.v)
      [] val.kind = "[][]float64" -> DivMat(mm, val.g)
      [] OTHER -> UsagePanic(mm)

----------------------------------------------------------------------------
\* construction helpers

\* New(r, c): r rows of c zeros
New(r, c) == [i \in 1..r |-> [j \in 1..c |-> Zero]]

\* I without the loop that sets the diagonal
I_NoDiagonal(x) == New(x, x)

\* I(x): New(x) with m[i][i] = 1.0
I(x) == [i \in 1..x |-> [j \in 1..x |-> IF i = j THEN One ELSE Zero]]

\* Equal(m, n): same number of rows, same length of every row, and no
\* position where m[i][j] != n[i][j]
Equal(mm, nn) ==
    IF Len(mm) # Len(nn) THEN FALSE
    ELSE IF \E i \in DOMAIN mm : Len(mm[i]) # Len(nn[i]) THEN FALSE
    ELSE ~ \E i \in DOMAIN mm : \E j \in DOMAIN mm[i] : FNeq(mm[i][j], nn[i][j])

----------------------------------------------------------------------------
\* T and Dot: the result is a new grid, or the call panics

NoValue == <<>>

\* the storage of the rows New makes: make([]float64, c) for every row, a
\* slice nothing else refers to.  <<"m", i>> and <<"n", i>> name the storage
\* of row i of the first and of the second argument.
Fresh(gg) == [i \in DOMAIN gg |-> <<"new", i>>]

Grid(gg) == [grid |-> gg, refs |-> Fresh(gg), err |-> "none"]

GridPanic == [grid |-> NoGrid, refs |-> <<>>, err |-> "index"]

\* T handing back m itself when m is one row of one element
T_ReturnsArgument(mm) ==
    IF Len(mm) = 0 THEN GridPanic
    ELSE IF \E i \in DOMAIN mm : Len(mm[i]) > Len(mm[1]) THEN GridPanic
    ELSE IF Len(mm) = 1 /\ Len(mm[1]) = 1
         THEN [grid |-> mm, refs |-> <<<<"m", 1>>>>, err |-> "none"]
    ELSE Grid([j \in 1..Len(mm[1]) |-> [i \in 1..Len(mm) |->
                  IF j <= Len(mm[i]) THEN mm[i][j] ELSE Zero]])

\* T with n := New(len(m), len(m[0])) and n[i][j] = m[i][j]: a copy
T_NoSwap(mm) ==
    IF Len(mm) = 0 THEN GridPanic
    ELSE IF \E i \in DOMAIN mm : Len(mm[i]) > Len(mm[1]) THEN GridPanic
    ELSE Grid([i \in 1..Len(mm) |-> [j \in 1..Len(mm[1]) |->
                  IF j <= Len(mm[i]) THEN mm[i][j] ELSE Zero]])

\* T(m): n := New(len(m[0]), len(m)); n[j][i] = m[i][j].  m[0] panics on a grid
\* of zero rows, n[j] panics for a row of m longer than m[0].
T(mm) ==
    IF Len(mm) = 0 THEN GridPanic
    ELSE IF \E i \in DOMAIN mm : Len(mm[i]) > Len(mm[1]) THEN GridPanic
    ELSE Grid([j \in 1..Len(mm[1]) |-> [i \in 1..Len(mm) |->
                  IF j <= Len(mm[i]) THEN mm[i][j] ELSE Zero]])

\* DotCell with res[i][j] = ... in place of res[i][j] += ...: the last product
DotCell_Assign(mm, nn, i, j, k, acc) ==
    IF Len(mm[i]) = 0 THEN acc
    ELSE FMul(mm[i][Len(mm[i])], nn[Len(mm[i])][j])

\* for k := range m[i] { res[i][j] += m[i][k] * n[k][j] }, from Go index k - 1 on
RECURSIVE DotCell(_, _, _, _, _, _)
DotCell(mm, nn, i, j, k, acc) ==
    IF k > Len(mm[i]) THEN acc
    ELSE DotCell(mm, nn, i, j, k + 1, FAdd(acc, FMul(mm[i][k], nn[k][j])))

\* Dot(m, n): res := New(len(m), len(n[0])).  n[0] panics on an n of zero
\* rows, n[k][j] panics when n has no row k or a row k shorter than n[0].
Dot(mm, nn) ==
    IF Len(nn) = 0 THEN GridPanic
    ELSE IF \E i \in DOMAIN mm : \E j \in 1..Len(nn[1]) : \E k \in DOMAIN mm[i] :
               k > Len(nn) \/ j > Len(nn[k]) THEN GridPanic
    ELSE Grid([i \in 1..Len(mm) |-> [j \in 1..Len(nn[1]) |->
                  DotCell(mm, nn, i, j, 1, Zero)]])

\* RandMat.  rand.Float64() returns some number of [0, 1): draws holds, for
\* every position of the grid New made, the number drawn for it.
Draws == {Zero, <<1, 2>>}

\* the trailing float64s tried: none, to, (from, to), and three of them
RangeLists == {<<>>, <<F(2)>>, <<One, F(3)>>, <<Zero, One, F(2)>>}

RandFrom(a) == IF Len(a) = 2 THEN a[1] ELSE Zero

RandTo(a) == IF Len(a) = 0 THEN One ELSE IF Len(a) = 1 THEN a[1] ELSE a[2]

\* m := New(y, y), then the switch on len(args), then
\* m[i][j] = rand.Float64()*(to-from) + from for every element of m
RandMat(x, y, a, draws) ==
    IF Len(a) > 2 THEN [grid |-> NoGrid, refs |-> <<>>, err |-> "usage"]
    ELSE Grid([i \in DOMAIN New(y, y) |-> [j \in DOMAIN New(y, y)[i] |->
                  FAdd(FMul(draws[i][j], FSub(RandTo(a), RandFrom(a))), RandFrom(a))]])

----------------------------------------------------------------------------
\* Flatten: n = append(n, m[i]...) for every row, from Go index i - 1 on
RECURSIVE FlattenFrom(_, _)
FlattenFrom(mm, i) ==
    IF i > Len(mm) THEN NoVec ELSE mm[i] \o FlattenFrom(mm, i + 1)

Flatten(mm) == FlattenFrom(mm, 1)

----------------------------------------------------------------------------
\* Sum, Prod and Avg

Value(x) == [val |-> x, err |-> "none"]

ValuePanic(e) == [val |-> NoValue, err |-> e]

\* acc o= row[j] for every element of a row, left to right
RECURSIVE FoldRow(_, _, _, _)
FoldRow(o, acc, row, j) ==
    IF j > Len(row) THEN acc
    ELSE FoldRow(o, Ap(o, acc, row[j]), row, j + 1)

\* for i := range m { for j := range m[i] { acc o= m[i][j] } }
RECURSIVE FoldGrid(_, _, _, _)
FoldGrid(o, acc, mm, i) ==
    IF i > Len(mm) THEN acc
    ELSE FoldGrid(o, FoldRow(o, acc, mm[i], 1), mm, i + 1)

\* for i := range m[x] { acc o= m[x][i] }: m[x] panics when x is no row of m
RowScan(o, acc, mm, x) ==
    IF x < 0 \/ x >= Len(mm) THEN ValuePanic("index")
    ELSE Value(FoldRow(o, acc, mm[x + 1], 1))

\* for i := range m { acc o= m[i][x] }, from Go index i - 1 on: m[i][x]
\* panics when x is no position of row i
RECURSIVE ColScan(_, _, _, _, _)
ColScan(o, acc, mm, x, i) ==
    IF i > Len(mm) THEN Value(acc)
    ELSE IF x < 0 \/ x >= Len(mm[i]) THEN ValuePanic("index")
    ELSE ColScan(o, Ap(o, acc, mm[i][x + 1]), mm, x, i + 1)

\* NegColScan counting the negative index from len(m) instead of len(m[0])
NegColScan_FromRowCount(o, acc, mm, x) ==
    IF Len(mm) = 0 THEN Value(acc)
    ELSE ColScan(o, acc, mm, Len(mm) + x, 1)

\* for i := range m { acc o= m[i][len(m[0])+x] }: the body, and with it m[0],
\* is not evaluated on a grid of zero rows
NegColScan(o, acc, mm, x) ==
    IF Len(mm) = 0 THEN Value(acc)
    ELSE ColScan(o, acc, mm, Len(mm[1]) + x, 1)

\* the texts of the explicit panics of Sum, Prod and Avg, with the name
\* Sprintf puts in for %s; the number put in for %d is left out
AxisMsg(name) == "In matf64." \o name \o " the first argument determines the axis"

ArityMsg(name) == "In matf64." \o name \o " expected 0 or 2 arguments"

Sum(mm, a) ==
    IF Len(a) = 0 THEN Value(FoldGrid("+", Zero, mm, 1))
    ELSE IF Len(a) = 2 THEN
        IF a[1] = 0 THEN
            IF a[2] >= 0 THEN RowScan("+", Zero, mm, a[2])
            ELSE RowScan("+", Zero, mm, Len(mm) + a[2])
        ELSE IF a[1] = 1 THEN
            IF a[2] >= 0 THEN ColScan("+", Zero, mm, a[2], 1)
            ELSE NegColScan("+", Zero, mm, a[2])
        ELSE ValuePanic(AxisMsg("Sum()"))
    ELSE ValuePanic(ArityMsg("Sum()"))

\* Prod taking every axis other than 0 for the column axis
Prod_AxisUnchecked(mm, a) ==
    IF Len(a) = 0 THEN Value(FoldGrid("*", One, mm, 1))
    ELSE IF Len(a) = 2 THEN
        IF a[1] = 0 THEN
            IF a[2] >= 0 THEN RowScan("*", One, mm, a[2])
            ELSE RowScan("*", One, mm, Len(mm) + a[2])
        ELSE
            IF a[2] >= 0 THEN ColScan("*", One, mm, a[2], 1)
            ELSE NegColScan("*", One, mm, a[2])
    ELSE ValuePanic(ArityMsg("Prod()"))

Prod(mm, a) ==
    IF Len(a) = 0 THEN Value(FoldGrid("*", One, mm, 1))
    ELSE IF Len(a) = 2 THEN
        IF a[1] = 0 THEN
            IF a[2] >= 0 THEN RowScan("*", One, mm, a[2])
            ELSE RowScan("*", One, mm, Len(mm) + a[2])
        ELSE IF a[1] = 1 THEN
            IF a[2] >= 0 THEN ColScan("*", One, mm, a[2], 1)
            ELSE NegColScan("*", One, mm, a[2])
        ELSE ValuePanic(AxisMsg("Prod()"))
    ELSE ValuePanic(ArityMsg("Prod()"))

\* numItems of Avg after the global scan: numItems++ once per element
RECURSIVE NumItems(_, _)
NumItems(mm, i) ==
    IF i > Len(mm) THEN 0 ELSE Len(mm[i]) + NumItems(mm, i + 1)

\* avg = sum / float64(numItems), after a scan that did not panic
AvgOf(scan, numItems) ==
    IF scan.err # "none" THEN scan
    ELSE Value(FDiv(scan.val, numItems))

Avg(mm, a) ==
    IF Len(a) = 0 THEN AvgOf(Value(FoldGrid("+", Zero, mm, 1)), F(NumItems(mm, 1)))
    ELSE IF Len(a) = 2 THEN
        IF a[1] = 0 THEN
            IF a[2] >= 0 THEN
                LET scan == RowScan("+", Zero, mm, a[2])
                IN  IF scan.err # "none" THEN scan
                    ELSE AvgOf(scan, F(Len(mm[a[2] + 1])))
            ELSE
                LET scan == RowScan("+", Zero, mm, Len(mm) + a[2])
                IN  IF scan.err # "none" THEN scan
                    ELSE AvgOf(scan, F(Len(mm[Len(mm) + a[2] + 1])))
        ELSE IF a[1] = 1 THEN
            IF a[2] >= 0 THEN AvgOf(ColScan("+", Zero, mm, a[2], 1), F(Len(mm)))
            ELSE AvgOf(NegColScan("+", Zero, mm, a[2]), F(Len(mm)))
        ELSE ValuePanic(AxisMsg("Avg()"))
    ELSE ValuePanic(ArityMsg("Avg()"))

----------------------------------------------------------------------------
\* All and Any.  A FilterFn is modelled by the set P of the values it accepts;
\* calls counts the calls of the FilterFn.

RECURSIVE AllRow(_, _, _, _)
AllRow(row, P, j, n) ==
    IF j > Len(row) THEN [flag |-> TRUE, calls |-> n]
    ELSE IF row[j] \notin P THEN [flag |-> FALSE, calls |-> n + 1]
    ELSE AllRow(row, P, j + 1, n + 1)

\* AllLoop with the final return true inside the loop over the rows
AllLoop_ReturnInLoop(mm, P, i, n) ==
    IF i > Len(mm) THEN [flag |-> TRUE, calls |-> n]
    ELSE AllRow(mm[i], P, 1, n)

RECURSIVE AllLoop(_, _, _, _)
AllLoop(mm, P, i, n) ==
    IF i > Len(mm) THEN [flag |-> TRUE, calls |-> n]
    ELSE LET r == AllRow(mm[i], P, 1, n)
         IN  IF r.flag THEN AllLoop(mm, P, i + 1, r.calls) ELSE r

All(mm, P) == AllLoop(mm, P, 1, 0)

\* AnyRow deciding only after the loop over the row: the FilterFn is called
\* on every element that is left in the row
AnyRow_WholeRow(row, P, j, n) ==
    [flag |-> \E k \in j..Len(row) : row[k] \in P,
     calls |-> n + (Len(row) + 1 - j)]

RECURSIVE AnyRow(_, _, _, _)
AnyRow(row, P, j, n) ==
    IF j > Len(row) THEN [flag |-> FALSE, calls |-> n]
    ELSE IF row[j] \in P THEN [flag |-> TRUE, calls |-> n + 1]
    ELSE AnyRow(row, P, j + 1, n + 1)

RECURSIVE AnyLoop(_, _, _, _)
AnyLoop(mm, P, i, n) ==
    IF i > Len(mm) THEN [flag |-> FALSE, calls |-> n]
    ELSE LET r == AnyRow(mm[i], P, 1, n)
         IN  IF r.flag THEN r ELSE AnyLoop(mm, P, i + 1, r.calls)

\* Any (the name Any is taken by module TLC)
AnyOf(mm, P) == AnyLoop(mm, P, 1, 0)

\* the FilterFns tried: one for every set of input values
FilterFns == SUBSET Vals

----------------------------------------------------------------------------
\* NewReducer.  The closure captures the variable initialValue and hands its
\* address to f at every element: f(&initialValue, &m[i][j]).  A BinaryFn is
\* modelled by the operator o it applies, *i = *i o *j, or by "=" for *i = *j.

BinaryFns == {"+", "*", "-", "="}

\* the closure folding from 0.0, as Sum does, instead of from initialValue
ReducerCall_FromZero(captured, fn, mm) == FoldGrid(fn, Zero, mm, 1)

\* one invocation of the closure: the captured variable after the loops,
\* which is also the value returned
ReducerCall(captured, fn, mm) == FoldGrid(fn, captured, mm, 1)

----------------------------------------------------------------------------
\* AppendCol: for i := range v { m[i] = append(m[i], v[i]) }, from Go index
\* i - 1 on.  m[i] is an element of the array the caller's m refers to as
\* well, so the caller sees every row that was assigned; m[i] panics when v
\* is longer than m, after the rows before were assigned.  Nothing is
\* returned.
RECURSIVE AppendColFrom(_, _, _)
AppendColFrom(mm, v, i) ==
    IF i > Len(v) THEN Done(mm)
    ELSE IF i > Len(mm) THEN IndexPanic(mm)
    ELSE AppendColFrom([mm EXCEPT ![i] = Append(mm[i], v[i])], v, i + 1)

AppendCol(mm, v) == AppendColFrom(mm, v, 1)

----------------------------------------------------------------------------
\* Apply and Set.  A TransformerFn is modelled by the assignment it makes
\* through its pointer, *i o= c or *i = c; visits lists, in the order of the
\* calls, the positions whose address it was called with.

TransformerFns == {[o |-> o, c |-> c] : o \in {"=", "+"}, c \in Vals}

\* the value at *i after f(i)
Transformed(f, x) == Ap(f.o, x, f.c)

\* for i := range v { f(&v[i]) }, from Go index i - 1 on
RECURSIVE ApplyVecFrom(_, _, _, _)
ApplyVecFrom(v, f, i, log) ==
    IF i > Len(v) THEN [v |-> v, visits |-> log]
    ELSE ApplyVecFrom([v EXCEPT ![i] = Transformed(f, v[i])], f, i + 1,
                      Append(log, <<i>>))

ApplyVec(v, f) == ApplyVecFrom(v, f, 1, <<>>)

\* ApplyRow ranging over the values, for _, x := range v[i] { f(&x) }: f is
\* called once for every element, on a copy of it
ApplyRow_RangeCopy(row, f, i, j, log) ==
    [row |-> row,
     visits |-> log \o [k \in 1..(Len(row) + 1 - j) |-> <<i, j + k - 1>>]]

\* for j := range v[i] { f(&v[i][j]) }, from Go index j - 1 on
RECURSIVE ApplyRow(_, _, _, _, _)
ApplyRow(row, f, i, j, log) ==
    IF j > Len(row) THEN [row |-> row, visits |-> log]
    ELSE ApplyRow([row EXCEPT ![j] = Transformed(f, row[j])], f, i, j + 1,
                  Append(log, <<i, j>>))

\* for i := range v { ... }, from Go index i - 1 on
RECURSIVE ApplyMatFrom(_, _, _, _)
ApplyMatFrom(mm, f, i, log) ==
    IF i > Len(mm) THEN [g |-> mm, visits |-> log]
    ELSE LET r == ApplyRow(mm[i], f, i, 1, log)
         IN  ApplyMatFrom([mm EXCEPT ![i] = r.row], f, i + 1, r.visits)

ApplyMat(mm, f) == ApplyMatFrom(mm, f, 1, <<>>)

\* the targets Apply and Set are tried on: the grid m, a vector, an int
Targets(mm) == {MatOperand(mm)} \cup {VecOperand(vv) : vv \in Vectors} \cup {IntOperand}

\* Apply(t, f): the grid and the vector of the target afterwards
Apply(t, f) ==
    CASE t.kind = "[]float64" ->
            LET r == ApplyVec(t.v, f)
            IN  [g |-> t.g, v |-> r.v, visits |-> r.visits, err |-> "none"]
      [] t.kind = "[][]float64" ->
            LET r == ApplyMat(t.g, f)
            IN  [g |-> r.g, v |-> t.v, visits |-> r.visits, err |-> "none"]
      [] OTHER -> [g |-> t.g, v |-> t.v, visits |-> <<>>, err |-> "usage"]

\* for i := range v { v[i] = val }
SetVec(v, x) == [i \in DOMAIN v |-> x]

\* for i := range m { for j := range m[i] { m[i][j] = val } }
SetMat(mm, x) == [i \in DOMAIN mm |-> [j \in DOMAIN mm[i] |-> x]]

Set(t, x) ==
    CASE t.kind = "[]float64" -> [g |-> t.g, v |-> SetVec(t.v, x), err |-> "none"]
      [] t.kind = "[][]float64" -> [g |-> SetMat(t.g, x), v |-> t.v, err |-> "none"]
      [] OTHER -> [g |-> t.g, v |-> t.v, err |-> "usage"]

----------------------------------------------------------------------------
\* the state: one caller, its grid m, the call it makes and what comes back

VARIABLES
    m,            \* the grid passed as first argument, as it is now
    m0,           \* m at the entry of the last call
    op,           \* the function called last, "init" before any call
    val,          \* the operand of an arithmetic call, the target of Apply and Set
    n,            \* the second grid of Dot
    args,         \* the trailing ints of Sum, Prod and Avg
    P,            \* the FilterFn of All and Any
    ret,          \* the float64 returned, NoValue if none
    out,          \* the grid returned
    flag,         \* the bool returned
    fcalls,       \* the calls of the FilterFn made by the last call
    err,          \* "none", or the panic that ended the last call
    initialValue, \* the variable captured by the closure of NewReducer
    init0,        \* the initial value NewReducer was called with
    fn,           \* the BinaryFn NewReducer was called with
    calls,        \* the invocations of the closure so far
    prev,         \* what the invocation before the last returned
    w,            \* the vector passed to Apply or Set, as it is now
    tf,           \* the TransformerFn of Apply, the val of Set
    visits,       \* the elements the TransformerFn was called on, in order
    refs,         \* for every row of out, the storage it lives in
    n0,           \* n at the entry of the last call
    fargs         \* the trailing float64s of RandMat

argvars == <<val, n, args, P>>

resvars == <<ret, out, flag, fcalls>>

redvars == <<initialValue, init0, fn, calls, prev>>

appvars == <<w, tf, visits>>

extvars == <<appvars, refs, n0, fargs>>

vars == <<m, m0, op, argvars, resvars, err, redvars, extvars>>

\* no TransformerFn: Apply and Set were not called
NoTransformer == [o |-> "none", c |-> Zero]

NoOperand == [kind |-> "none", s |-> Zero, v |-> NoVec, g |-> NoGrid]

\* the trailing ints tried: none, (axis, index) with axes and indices in and
\* out of range, and lists of one, three and four ints
MaxDim == IF MaxRows > MaxCols THEN MaxRows ELSE MaxCols

ArgLists ==
    {<<>>} \cup {<<a, x>> : a \in -1..2, x \in -(MaxDim + 1)..MaxDim}
        \cup {<<0>>, <<1>>, <<0, 0, 0>>, <<1, 0, 0, 0>>}

Init ==
    /\ m \in Grids \cup JaggedGrids
    /\ m0 = m
    /\ op = "init"
    /\ val = NoOperand
    /\ n = NoGrid
    /\ args = <<>>
    /\ P = {}
    /\ ret = NoValue
    /\ out = NoGrid
    /\ flag = FALSE
    /\ fcalls = 0
    /\ err = "none"
    /\ initialValue = Zero
    /\ init0 = Zero
    /\ fn = "+"
    /\ calls = 0
    /\ prev = NoValue
    /\ w = NoVec
    /\ tf = NoTransformer
    /\ visits = <<>>
    /\ refs = <<>>
    /\ n0 = NoGrid
    /\ fargs = <<>>

\* a call of an in-place arithmetic function with outcome r
ArithCall(name, operand, r) ==
    /\ op = "init"
    /\ op' = name
    /\ val' = operand
    /\ m0' = m
    /\ m' = r.m
    /\ err' = r.err
    /\ UNCHANGED <<n, args, P, resvars, redvars, extvars>>

CallMultScalar == \E sv \in Vals : ArithCall("MultScalar", ScalarOperand(sv), MultScalar(m, sv))

CallMultVec == \E vv \in Vectors : ArithCall("MultVec", VecOperand(vv), MultVec(m, vv))

CallMultMat == \E gv \in Grids : ArithCall("MultMat", MatOperand(gv), MultMat(m, gv))

CallAddScalar == \E sv \in Vals : ArithCall("AddScalar", ScalarOperand(sv), AddScalar(m, sv))

CallAddVec == \E vv \in Vectors : ArithCall("AddVec", VecOperand(vv), AddVec(m, vv))

CallAddMat == \E gv \in Grids : ArithCall("AddMat", MatOperand(gv), AddMat(m, gv))

CallSubScalar == \E sv \in Vals : ArithCall("SubScalar", ScalarOperand(sv), SubScalar(m, sv))

CallSubVec == \E vv \in Vectors : ArithCall("SubVec", VecOperand(vv), SubVec(m, vv))

CallSubMat == \E gv \in Grids : ArithCall("SubMat", MatOperand(gv), SubMat(m, gv))

CallDivScalar == \E sv \in Vals : ArithCall("DivScalar", ScalarOperand(sv), DivScalar(m, sv))

CallDivVec == \E vv \in Vectors : ArithCall("DivVec", VecOperand(vv), DivVec(m, vv))

CallDivMat == \E gv \in Grids : ArithCall("DivMat", MatOperand(gv), DivMat(m, gv))

CallMult == \E o \in Operands : ArithCall("Mult", o, Mult(m, o))

CallAdd == \E o \in Operands : ArithCall("Add", o, Add(m, o))

CallSub == \E o \in Operands : ArithCall("Sub", o, Sub(m, o))

CallDiv == \E o \in Operands : ArithCall("Div", o, Div(m, o))

\* a dispatcher called with m as its operand too, Mult(m, m): the case
\* [][]float64 of the switch hands m and m to the grid kernel.  Afterwards
\* the operand holds what m holds.
SelfCall(name, r) ==
    /\ op = "init"
    /\ op' = name
    /\ val' = MatOperand(r.m)
    /\ m0' = m
    /\ m' = r.m
    /\ err' = r.err
    /\ UNCHANGED <<n, args, P, resvars, redvars, extvars>>

CallMultSelf == SelfCall("Mult(m, m)", SelfLoop("*", m))

CallAddSelf == SelfCall("Add(m, m)", SelfLoop("+", m))

CallSubSelf == SelfCall("Sub(m, m)", SelfLoop("-", m))

CallDivSelf == SelfCall("Div(m, m)", SelfLoop("/", m))

CallAppendCol == \E vv \in Vectors : ArithCall("AppendCol", VecOperand(vv), AppendCol(m, vv))

\* a call of Sum, Prod or Avg with outcome r: m is only read
ReduceCall(name, a, r) ==
    /\ op = "init"
    /\ op' = name
    /\ args' = a
    /\ m0' = m
    /\ ret' = r.val
    /\ err' = r.err
    /\ UNCHANGED <<m, val, n, P, out, flag, fcalls, redvars, extvars>>

CallSum == \E a \in ArgLists : ReduceCall("Sum", a, Sum(m, a))

CallProd == \E a \in ArgLists : ReduceCall("Prod", a, Prod(m, a))

CallAvg == \E a \in ArgLists : ReduceCall("Avg", a, Avg(m, a))

\* a call of All or Any with outcome r
FilterCall(name, f, r) ==
    /\ op = "init"
    /\ op' = name
    /\ P' = f
    /\ m0' = m
    /\ flag' = r.flag
    /\ fcalls' = r.calls
    /\ UNCHANGED <<m, val, n, args, ret, out, err, redvars, extvars>>

CallAll == \E f \in FilterFns : FilterCall("All", f, All(m, f))

CallAny == \E f \in FilterFns : FilterCall("Any", f, AnyOf(m, f))

\* n := T(m)
CallT ==
    /\ op = "init"
    /\ op' = "T"
    /\ m0' = m
    /\ out' = T(m).grid
    /\ refs' = T(m).refs
    /\ err' = T(m).err
    /\ UNCHANGED <<m, argvars, ret, flag, fcalls, redvars, appvars, n0, fargs>>

\* T(n) for the n a call of T returned
CallTAgain ==
    /\ op = "T"
    /\ err = "none"
    /\ op' = "TT"
    /\ out' = T(out).grid
    /\ refs' = T(out).refs
    /\ err' = T(out).err
    /\ UNCHANGED <<m, m0, argvars, ret, flag, fcalls, redvars, appvars, n0, fargs>>

\* o := Dot(m, n)
CallDot ==
    \E nn \in Grids \cup {I(x) : x \in 0..MaxRows} :
        /\ op = "init"
        /\ op' = "Dot"
        /\ n' = nn
        /\ n0' = nn
        /\ m0' = m
        /\ out' = Dot(m, nn).grid
        /\ refs' = Dot(m, nn).refs
        /\ err' = Dot(m, nn).err
        /\ UNCHANGED <<m, val, args, P, ret, flag, fcalls, redvars, appvars, fargs>>

\* sum := NewReducer(iv, f)
CallNewReducer ==
    \E iv \in Vals, f \in BinaryFns :
        /\ op = "init"
        /\ op' = "NewReducer"
        /\ initialValue' = iv
        /\ init0' = iv
        /\ fn' = f
        /\ UNCHANGED <<m, m0, argvars, resvars, err, calls, prev, extvars>>

\* sum(m), for the closure NewReducer returned
CallReducer ==
    /\ op \in {"NewReducer", "Reducer"}
    /\ calls < MaxCalls
    /\ op' = "Reducer"
    /\ calls' = calls + 1
    /\ initialValue' = ReducerCall(initialValue, fn, m)
    /\ ret' = initialValue'
    /\ prev' = ret
    /\ m0' = m
    /\ UNCHANGED <<m, argvars, out, flag, fcalls, err, init0, fn, extvars>>

\* Apply(t, f) for t the grid m, a vector or an int
CallApply ==
    \E t \in Targets(m), f \in TransformerFns :
        /\ op = "init"
        /\ op' = "Apply"
        /\ val' = t
        /\ tf' = f
        /\ m0' = m
        /\ m' = IF t.kind = "[][]float64" THEN Apply(t, f).g ELSE m
        /\ w' = Apply(t, f).v
        /\ visits' = Apply(t, f).visits
        /\ err' = Apply(t, f).err
        /\ UNCHANGED <<n, args, P, resvars, redvars, refs, n0, fargs>>

\* Set(t, x) for t the grid m, a vector or an int
CallSet ==
    \E t \in Targets(m), x \in Vals :
        /\ op = "init"
        /\ op' = "Set"
        /\ val' = t
        /\ tf' = [o |-> "val", c |-> x]
        /\ m0' = m
        /\ m' = IF t.kind = "[][]float64" THEN Set(t, x).g ELSE m
        /\ w' = Set(t, x).v
        /\ err' = Set(t, x).err
        /\ UNCHANGED <<n, args, P, resvars, redvars, visits, refs, n0, fargs>>

\* what a grid named name holds after the rows of gg were written, rf
\* naming the storage of every row of gg
WrittenThrough(target, name, gg, rf) ==
    [k \in DOMAIN target |->
        IF \E i \in DOMAIN rf : rf[i] = <<name, k>>
        THEN gg[CHOOSE i \in DOMAIN rf : rf[i] = <<name, k>>]
        ELSE target[k]]

\* Set(o, x) by the caller, o the grid T or Dot returned
CallSetOut ==
    \E x \in Vals :
        /\ op \in {"T", "Dot"}
        /\ err = "none"
        /\ op' = "Set(out)"
        /\ tf' = [o |-> "val", c |-> x]
        /\ out' = SetMat(out, x)
        /\ m' = WrittenThrough(m, "m", out', refs)
        /\ n' = WrittenThrough(n, "n", out', refs)
        /\ UNCHANGED <<m0, val, args, P, ret, flag, fcalls, err, redvars,
                       w, visits, refs, n0, fargs>>

\* o := RandMat(x, y, a...), for grids of at most MaxCells elements
CallRandMat ==
    /\ op = "init"
    /\ \E x \in 0..MaxRows, y \in 0..MaxCols, a \in RangeLists :
        /\ x * y <= MaxCells
        /\ y * y <= MaxCells
        /\ \E draws \in [1..y -> [1..y -> Draws]] :
            /\ op' = "RandMat"
            /\ args' = <<x, y>>
            /\ fargs' = a
            /\ m0' = m
            /\ out' = RandMat(x, y, a, draws).grid
            /\ refs' = RandMat(x, y, a, draws).refs
            /\ err' = RandMat(x, y, a, draws).err
            /\ UNCHANGED <<m, val, n, P, ret, flag, fcalls, redvars, appvars, n0>>

Next ==
    \/ CallMultScalar \/ CallMultVec \/ CallMultMat
    \/ CallAddScalar \/ CallAddVec \/ CallAddMat
    \/ CallSubScalar \/ CallSubVec \/ CallSubMat
    \/ CallDivScalar \/ CallDivVec \/ CallDivMat
    \/ CallMult \/ CallAdd \/ CallSub \/ CallDiv
    \/ CallSum \/ CallProd \/ CallAvg
    \/ CallAll \/ CallAny
    \/ CallT \/ CallTAgain \/ CallDot
    \/ CallNewReducer \/ CallReducer
    \/ CallApply \/ CallSet \/ CallSetOut
    \/ CallAppendCol \/ CallRandMat
    \/ CallMultSelf \/ CallAddSelf \/ CallSubSelf \/ CallDivSelf

Spec == Init /\ [][Next]_vars

----------------------------------------------------------------------------
\* shapes

IsRect(mm) == \A i \in DOMAIN mm : Len(mm[i]) = Len(mm[1])

SameShape(mm, nn) ==
    /\ Len(mm) = Len(nn)
    /\ \A i \in DOMAIN mm : Len(mm[i]) = Len(nn[i])

VecOps == {"MultVec", "AddVec", "SubVec", "DivVec"}

MatOps == {"MultMat", "AddMat", "SubMat", "DivMat"}

ScalarOps == {"MultScalar", "AddScalar", "SubScalar", "DivScalar"}

Dispatchers == {"Mult", "Add", "Sub", "Div"}

\* the arithmetic operator of an arithmetic function
OperatorOf(name) ==
    CASE name \in {"Mult", "MultScalar", "MultVec", "MultMat"} -> "*"
      [] name \in {"Add", "AddScalar", "AddVec", "AddMat"} -> "+"
      [] name \in {"Sub", "SubScalar", "SubVec", "SubMat"} -> "-"
      [] name \in {"Div", "DivScalar", "DivVec", "DivMat"} -> "/"

\* the last call was an arithmetic call with an operand of dynamic type k
ArithWith(k) == op \in ScalarOps \cup VecOps \cup MatOps \cup Dispatchers /\ val.kind = k

----------------------------------------------------------------------------
\* C1: every invocation of a reducer built by NewReducer(init, f) starts its
\* fold from init, whatever was invoked before, so a second invocation on
\* the same unchanged grid returns what the first returned.
C1_ReducerReusable ==
    op = "Reducer" =>
        /\ ret = FoldGrid(fn, init0, m, 1)
        /\ (calls >= 2 /\ m = m0 => ret = prev)

\* C2: a vector kernel (or a dispatcher given a vector) called on a
\* rectangular grid of r >= 1 rows and c >= 1 columns with a vector of a
\* length other than c, shorter or longer, panics and leaves the grid as it
\* was.
C2_VecLengthChecked ==
    (/\ ArithWith("[]float64")
     /\ IsRect(m0) /\ Len(m0) >= 1 /\ Len(m0[1]) >= 1
     /\ Len(val.v) # Len(m0[1]))
        => (err # "none" /\ m = m0)

\* C3: a grid kernel (or a dispatcher given a grid) called on a rectangular
\* grid of r >= 1 rows and c >= 1 columns with a rectangular grid of another
\* row count or another column count, smaller or larger, panics and leaves
\* the left grid as it was.
C3_MatShapeChecked ==
    (/\ ArithWith("[][]float64")
     /\ IsRect(m0) /\ Len(m0) >= 1 /\ Len(m0[1]) >= 1
     /\ IsRect(val.g)
     /\ \/ Len(val.g) # Len(m0)
        \/ (Len(val.g) >= 1 /\ Len(val.g[1]) # Len(m0[1])))
        => (err # "none" /\ m = m0)

\* the operand of the last arithmetic call fits the grid m0
OperandFits ==
    \/ val.kind = "float64"
    \/ val.kind = "[]float64" /\ \A i \in DOMAIN m0 : Len(val.v) = Len(m0[i])
    \/ val.kind = "[][]float64" /\ SameShape(val.g, m0)

\* what the element at (i, j) is combined with
OperandAt(i, j) ==
    CASE val.kind = "float64" -> val.s
      [] val.kind = "[]float64" -> val.v[j]
      [] val.kind = "[][]float64" -> val.g[i][j]

\* the state the direct kernel for the operand of the last call leaves
KernelResult ==
    LET o == OperatorOf(op)
    IN  CASE val.kind = "float64" ->
                 (CASE o = "*" -> MultScalar(m0, val.s) [] o = "+" -> AddScalar(m0, val.s)
                    [] o = "-" -> SubScalar(m0, val.s) [] o = "/" -> DivScalar(m0, val.s))
          [] val.kind = "[]float64" ->
                 (CASE o = "*" -> MultVec(m0, val.v) [] o = "+" -> AddVec(m0, val.v)
                    [] o = "-" -> SubVec(m0, val.v) [] o = "/" -> DivVec(m0, val.v))
          [] val.kind = "[][]float64" ->
                 (CASE o = "*" -> MultMat(m0, val.g) [] o = "+" -> AddMat(m0, val.g)
                    [] o = "-" -> SubMat(m0, val.g) [] o = "/" -> DivMat(m0, val.g))

\* C4: after Add, Sub, Mult or Div (kernel or dispatcher) of a rectangular
\* grid with a scalar, a vector of length c or a separate grid of the same
\* shape, the call returns, the shape of m is unchanged, every m[i][j] is its
\* former value combined by the operator with s, v[j] or g[i][j], and a
\* dispatcher leaves m as the direct kernel for that operand does.
C4_Elementwise ==
    (/\ op \in ScalarOps \cup VecOps \cup MatOps \cup Dispatchers
     /\ val.kind \in {"float64", "[]float64", "[][]float64"}
     /\ IsRect(m0)
     /\ OperandFits)
        => /\ err = "none"
           /\ SameShape(m, m0)
           /\ \A i \in DOMAIN m0 : \A j \in DOMAIN m0[i] :
                  m[i][j] = Ap(OperatorOf(op), m0[i][j], OperandAt(i, j))
           /\ (op \in Dispatchers => m = KernelResult.m /\ err = KernelResult.err)

\* a dispatcher was given a vector of two different entries and a grid of
\* two rows and two columns, and the division met a zero divisor
C4_Witness ==
    /\ op = "Div"
    /\ val.kind = "[]float64"
    /\ Len(m0) = 2 /\ Len(m0[1]) = 2 /\ Len(val.v) = 2
    /\ val.v[1] # val.v[2]
    /\ m0[1] # m0[2]
    /\ err = "none"
    /\ m[2][1] = PosInf

----------------------------------------------------------------------------
\* the sum and the product of a sequence of float64, from its end

RECURSIVE SeqSum(_)
SeqSum(sq) ==
    IF Len(sq) = 0 THEN Zero
    ELSE FAdd(SeqSum(SubSeq(sq, 1, Len(sq) - 1)), sq[Len(sq)])

RECURSIVE SeqProd(_)
SeqProd(sq) ==
    IF Len(sq) = 0 THEN One
    ELSE FMul(SeqProd(SubSeq(sq, 1, Len(sq) - 1)), sq[Len(sq)])

\* the line of m0 that (axis, index) = args selects: the position counted
\* from the end of the axis for a negative index
AxisLen == IF args[1] = 0 THEN Len(m0) ELSE Len(m0[1])

LinePos == IF args[2] >= 0 THEN args[2] ELSE AxisLen + args[2]

Line ==
    IF args[1] = 0 THEN m0[LinePos + 1]
    ELSE [i \in 1..Len(m0) |-> m0[i][LinePos + 1]]

\* the same line addressed by the index of the other sign
OtherIndex == IF args[2] >= 0 THEN args[2] - AxisLen ELSE args[2] + AxisLen

\* the last call was an axis reduction of a rectangular grid of at least one
\* row and one column, with a valid index
AxisCall ==
    /\ op \in {"Sum", "Prod", "Avg"}
    /\ IsRect(m0) /\ Len(m0) >= 1 /\ Len(m0[1]) >= 1
    /\ Len(args) = 2
    /\ args[1] \in {0, 1}
    /\ args[2] \in -AxisLen..(AxisLen - 1)

\* C5: on a rectangular grid of r >= 1 rows and c >= 1 columns, Sum, Prod and
\* Avg with (axis, index) return the sum, the product and the sum divided by
\* the length of exactly the selected row (axis 0) or column (axis 1), a
\* negative index counting from the end, so that index i and index i - r
\* (i - c for a column) give the same value.
C5_AxisLine ==
    AxisCall =>
        /\ err = "none"
        /\ op = "Sum" => ret = SeqSum(Line) /\ ret = Sum(m0, <<args[1], OtherIndex>>).val
        /\ op = "Prod" => ret = SeqProd(Line) /\ ret = Prod(m0, <<args[1], OtherIndex>>).val
        /\ op = "Avg" => /\ ret = FDiv(SeqSum(Line), F(Len(Line)))
                         /\ ret = Avg(m0, <<args[1], OtherIndex>>).val
        /\ m = m0

\* the sum of the last column of a grid of one row and three columns, asked
\* for with index -1, where the columns differ
C5_Witness ==
    /\ op = "Sum"
    /\ args = <<1, -1>>
    /\ m0 = <<<<Zero, Zero, One>>>>
    /\ err = "none"
    /\ ret = One

\* the sum over t = 1..k of A[i][t] * B[t][j]
RECURSIVE Sigma(_, _, _, _, _)
Sigma(A, B, i, j, k) ==
    IF k = 0 THEN Zero
    ELSE FAdd(Sigma(A, B, i, j, k - 1), FMul(A[i][k], B[k][j]))

\* C6: for rectangular A of shape r by k and B of shape k by c, k >= 1,
\* Dot(A, B) returns a grid of exactly r rows and c columns with
\* C[i][j] = sum over t of A[i][t] * B[t][j].
C6_DotProduct ==
    (/\ op = "Dot"
     /\ IsRect(m0) /\ IsRect(n)
     /\ Len(n) >= 1
     /\ \A i \in DOMAIN m0 : Len(m0[i]) = Len(n))
        => /\ err = "none"
           /\ Len(out) = Len(m0)
           /\ \A i \in DOMAIN out :
                  /\ Len(out[i]) = Len(n[1])
                  /\ \A j \in DOMAIN out[i] : out[i][j] = Sigma(m0, n, i, j, Len(n))

\* a 1 by 2 grid times a 2 by 2 grid whose product sums two non-zero terms
C6_Witness ==
    /\ op = "Dot"
    /\ m0 = <<<<One, One>>>>
    /\ n = <<<<One, Zero>>, <<One, One>>>>
    /\ err = "none"
    /\ out = <<<<F(2), One>>>>

\* T(m), for a rectangular m of r >= 1 rows and c >= 0 columns, has c rows
\* of r elements with T(m)[j][i] = m[i][j]
TransposeOf ==
    /\ err = "none"
    /\ Len(out) = Len(m0[1])
    /\ \A j \in DOMAIN out :
           /\ Len(out[j]) = Len(m0)
           /\ \A i \in DOMAIN out[j] : out[j][i] = m0[i][j]

\* C7 as stated: for every rectangular m of r >= 1 rows and c >= 0 columns
\* T(m) is the transpose, and T(T(m)) is defined and equals m in shape and
\* element-wise.
C7_TransposeInvolutionAny ==
    (IsRect(m0) /\ Len(m0) >= 1) =>
        /\ op = "T" => TransposeOf
        /\ op = "TT" => (err = "none" /\ SameShape(out, m0) /\ Equal(out, m0))

\* C7 amended: T(m) is the transpose for r >= 1 and c >= 0, and T(T(m)) is
\* defined and equals m in shape and element-wise when also c >= 1.
C7_TransposeInvolution ==
    (IsRect(m0) /\ Len(m0) >= 1) =>
        /\ op = "T" => TransposeOf
        /\ (op = "TT" /\ Len(m0[1]) >= 1) =>
               (err = "none" /\ SameShape(out, m0) /\ Equal(out, m0))

\* T was applied twice to a grid of three rows and one column with
\* different elements
C7_Witness ==
    /\ op = "TT"
    /\ m0 = <<<<Zero>>, <<One>>, <<One>>>>
    /\ err = "none"
    /\ out = m0

IsSquare(mm) == \A i \in DOMAIN mm : Len(mm[i]) = Len(mm)

Positions(mm) == {<<i, j>> \in (DOMAIN mm) \X (1..MaxCols) : j \in DOMAIN mm[i]}

\* C9: All(m, p) is true iff every element of m satisfies p and Any(m, p) is
\* true iff some element does; on a grid with no elements All is true and Any
\* is false.
C9_AllAny ==
    /\ op = "All" => (flag <=> \A q \in Positions(m0) : m0[q[1]][q[2]] \in P)
    /\ op = "Any" => (flag <=> \E q \in Positions(m0) : m0[q[1]][q[2]] \in P)
    /\ (op \in {"All", "Any"} /\ Positions(m0) = {}) => (flag <=> op = "All")

\* All found its only failing element in the second row, after a first row
\* that satisfies the predicate
C9_Witness ==
    /\ op = "All"
    /\ m0 = <<<<One, One>>, <<One, Zero>>>>
    /\ P = {One}
    /\ flag = FALSE

\* C10: Avg over zero elements (Avg(m) on a grid with no elements, Avg(m, 0, i)
\* on a row of length zero, Avg(m, 1, j) on a grid of zero rows) ends in an
\* error and returns no value.
C10_AvgOfNothingFails ==
    (/\ op = "Avg"
     /\ \/ Len(args) = 0 /\ Positions(m0) = {}
        \/ /\ Len(args) = 2 /\ args[1] = 0
           /\ args[2] \in -Len(m0)..(Len(m0) - 1)
           /\ Len(m0[(IF args[2] >= 0 THEN args[2] ELSE Len(m0) + args[2]) + 1]) = 0
        \/ Len(args) = 2 /\ args[1] = 1 /\ Len(m0) = 0)
        => (err # "none" /\ ret = NoValue)

----------------------------------------------------------------------------
\* the calls of Sum, Prod and Avg
Reductions == {"Sum", "Prod", "Avg"}

\* C11: a call of Sum, Prod or Avg with a number of trailing ints other than
\* 0 and 2, or with two of them and an axis other than 0 and 1, ends in the
\* panic whose text names the function called, returns no value and leaves
\* the grid as it was, whatever the grid and the index are.
C11_ArityAndAxisChecked ==
    op \in Reductions =>
        /\ Len(args) \notin {0, 2} =>
               /\ err = ArityMsg(op \o "()")
               /\ ret = NoValue
               /\ m = m0
        /\ (Len(args) = 2 /\ args[1] \notin {0, 1}) =>
               /\ err = AxisMsg(op \o "()")
               /\ ret = NoValue
               /\ m = m0

\* Prod(m, 2, 0) on a grid that has a row 0 and a column 0
C11_Witness ==
    /\ op = "Prod"
    /\ args = <<2, 0>>
    /\ Len(m0) > 0
    /\ Len(m0[1]) > 0
    /\ err = AxisMsg("Prod()")

----------------------------------------------------------------------------
\* f applied from the left to acc and the elements of sq in turn
RECURSIVE LeftFold(_, _, _)
LeftFold(f, acc, sq) ==
    IF sq = <<>> THEN acc
    ELSE Ap(f, LeftFold(f, acc, SubSeq(sq, 1, Len(sq) - 1)), sq[Len(sq)])

\* C12: the first invocation of the reducer NewReducer(init, f) returned, on
\* a grid m, returns the left fold of f over the elements of m in row-major
\* order starting from init, which is init when m has no element; with
\* init 0 and f the addition it returns what Sum(m) returns.
C12_FirstInvocationFolds ==
    (op = "Reducer" /\ calls = 1) =>
        /\ ret = LeftFold(fn, init0, Flatten(m0))
        /\ (Flatten(m0) = <<>> => ret = init0)
        /\ ((init0 = Zero /\ fn = "+") => Sum(m0, <<>>) = Value(ret))

\* the first invocation of a subtracting reducer started from 1 on a grid of
\* two rows that hold a 1 each
C12_Witness ==
    /\ op = "Reducer"
    /\ calls = 1
    /\ fn = "-"
    /\ init0 = One
    /\ Len(m0) = 2
    /\ Flatten(m0) = <<One, One>>
    /\ ret = F(-1)

----------------------------------------------------------------------------
\* the positions of a row, left to right, and of a grid, row after row
RowPositions(mm, i) == [j \in 1..Len(mm[i]) |-> <<i, j>>]

RECURSIVE RowMajorFrom(_, _)
RowMajorFrom(mm, i) ==
    IF i > Len(mm) THEN <<>> ELSE RowPositions(mm, i) \o RowMajorFrom(mm, i + 1)

\* C13: Apply(m, f) on a grid or a vector calls f exactly once on every
\* element, in row-major order, and on nothing else; afterwards every
\* element is what f made of its former value and the shape is unchanged.
\* With an f that stores a constant, and with Set(m, val), every element
\* equals the constant afterwards.
C13_ApplyEveryElementOnce ==
    /\ (op = "Apply" /\ val.kind = "[][]float64") =>
           /\ err = "none"
           /\ visits = RowMajorFrom(m0, 1)
           /\ SameShape(m, m0)
           /\ \A p \in Positions(m0) :
                  /\ m[p[1]][p[2]] = Transformed(tf, m0[p[1]][p[2]])
                  /\ tf.o = "=" => m[p[1]][p[2]] = tf.c
    /\ (op = "Apply" /\ val.kind = "[]float64") =>
           /\ err = "none"
           /\ visits = [j \in 1..Len(val.v) |-> <<j>>]
           /\ Len(w) = Len(val.v)
           /\ \A j \in DOMAIN w :
                  /\ w[j] = Transformed(tf, val.v[j])
                  /\ tf.o = "=" => w[j] = tf.c
           /\ m = m0
    /\ (op = "Set" /\ val.kind = "[][]float64") =>
           /\ err = "none"
           /\ SameShape(m, m0)
           /\ \A p \in Positions(m0) : m[p[1]][p[2]] = tf.c
    /\ (op = "Set" /\ val.kind = "[]float64") =>
           /\ err = "none"
           /\ Len(w) = Len(val.v)
           /\ \A j \in DOMAIN w : w[j] = tf.c
           /\ m = m0

\* Apply(m, f) with f adding 1, on a grid of two rows of two that holds a 0
\* and a 1
C13_Witness ==
    /\ op = "Apply"
    /\ val.kind = "[][]float64"
    /\ tf = [o |-> "+", c |-> One]
    /\ Len(m0) = 2 /\ Len(m0[1]) = 2 /\ Len(m0[2]) = 2
    /\ m0[1][1] = Zero /\ m0[2][2] = One
    /\ m[1][1] = One /\ m[2][2] = F(2)
    /\ Len(visits) = 4

----------------------------------------------------------------------------
\* C14: Sum, Prod and Avg (global, or with an axis and an index), Dot and T
\* leave the grids passed to them as they were, and the grid Dot or T
\* returns shares no storage with them: no row of it lives in the storage
\* of a row of an argument, and a later write to it changes no argument.
C14_ArgumentsIntact ==
    /\ op \in Reductions \cup {"T", "Dot"} => m = m0
    /\ op = "Dot" => n = n0
    /\ (op \in {"T", "Dot"} /\ err = "none") =>
           \A i \in DOMAIN refs : refs[i][1] \notin {"m", "n"}
    /\ op = "Set(out)" => (m = m0 /\ n = n0)

\* the caller has set every element of the transpose of a grid of one row
\* and one element to the other value: the grid still holds its own
C14_Witness ==
    /\ op = "Set(out)"
    /\ Len(m0) = 1 /\ Len(m0[1]) = 1
    /\ n0 = NoGrid
    /\ out = <<<<tf.c>>>>
    /\ m[1][1] # tf.c

----------------------------------------------------------------------------
\* C15: AppendCol(m, v) does not mutate its arguments: after the call, here
\* with a v of one element per row of a rectangular m of at least one row
\* and one column, the caller's m has the number of rows, the row lengths
\* and the elements it had before.
C15_AppendColLeavesArguments ==
    (/\ op = "AppendCol"
     /\ IsRect(m0) /\ Len(m0) >= 1 /\ Len(m0[1]) >= 1
     /\ Len(val.v) = Len(m0)) =>
        /\ Len(m) = Len(m0)
        /\ \A i \in DOMAIN m0 : Len(m[i]) = Len(m0[i])
        /\ m = m0

----------------------------------------------------------------------------
\* C16: RandMat(x, y) returns a grid of exactly x rows and y columns, for
\* all x and y and so for x # y too, as New(x, y) does.
C16_RandMatShape ==
    (op = "RandMat" /\ err = "none") =>
        /\ Len(out) = args[1]
        /\ \A i \in DOMAIN out : Len(out[i]) = args[2]
        /\ SameShape(out, New(args[1], args[2]))

----------------------------------------------------------------------------
\* the number of columns of a rectangular grid, 0 for a grid of zero rows
ColCount(mm) == IF Len(mm) = 0 THEN 0 ELSE Len(mm[1])

\* the length of the axis args[1] of m0
AxisCount == IF args[1] = 0 THEN Len(m0) ELSE ColCount(m0)

\* C17: on every rectangular grid, one of zero rows included, Sum, Prod and
\* Avg called with (axis, index) and an index outside -n..n-1, n the number
\* of rows for axis 0 and of columns for axis 1, fail and return no value.
C17_OutOfRangeFails ==
    (/\ op \in Reductions
     /\ IsRect(m0)
     /\ Len(args) = 2
     /\ args[1] \in {0, 1}
     /\ args[2] \notin -AxisCount..(AxisCount - 1))
        => (err # "none" /\ ret = NoValue)

----------------------------------------------------------------------------
\* the row-major positions, counted from 1, of the elements that decide the
\* last call of All (an element the FilterFn rejects) or of Any (one it
\* accepts)
Deciding ==
    {k \in 1..Len(Flatten(m0)) :
        IF op = "All" THEN Flatten(m0)[k] \notin P ELSE Flatten(m0)[k] \in P}

FirstDeciding == CHOOSE k \in Deciding : \A j \in Deciding : k <= j

\* C18: All and Any call the predicate on the elements in row-major order
\* and stop at the first deciding one: the predicate is called exactly k + 1
\* times when the first deciding element is at row-major position k counted
\* from 0, and once per element when no element decides.
C18_ShortCircuit ==
    op \in {"All", "Any"} =>
        fcalls = IF Deciding = {} THEN Len(Flatten(m0)) ELSE FirstDeciding

\* Any on a grid of four elements whose second is the first accepted: two
\* calls
C18_Witness ==
    /\ op = "Any"
    /\ Len(Flatten(m0)) = 4
    /\ Deciding # {}
    /\ FirstDeciding = 2
    /\ fcalls = 2
    /\ flag

----------------------------------------------------------------------------
\* the calls with the grid m as both operands
SelfOps == {"Mult(m, m)", "Add(m, m)", "Sub(m, m)", "Div(m, m)"}

\* C19: after Mult(m, m), Add(m, m), Sub(m, m) and Div(m, m) every element
\* is the operator applied to its own former value on both sides, x*x, x+x,
\* 0, and 1 for every x other than 0: no element is computed from a value
\* that was updated already.  The shape is unchanged and the call does not
\* panic.
C19_SelfOperand ==
    op \in SelfOps =>
        /\ err = "none"
        /\ SameShape(m, m0)
        /\ val.g = m
        /\ \A p \in Positions(m0) :
               LET x == m0[p[1]][p[2]]
                   y == m[p[1]][p[2]]
               IN  /\ op = "Mult(m, m)" => y = FMul(x, x)
                   /\ op = "Add(m, m)" => y = FAdd(x, x)
                   /\ op = "Sub(m, m)" => y = Zero
                   /\ (op = "Div(m, m)" /\ x # Zero) => y = One

\* Add(m, m) on a grid of two rows of two that holds a 0 and three 1s
C19_Witness ==
    /\ op = "Add(m, m)"
    /\ m0 = <<<<One, One>>, <<Zero, One>>>>
    /\ m = <<<<F(2), F(2)>>, <<Zero, F(2)>>>>

====
